---- MODULE Spec2Model ----
(***************************************************************************)
(* Model of spacy/training/loggers.py (setup_table, console_logger,        *)
(* wandb_logger, comet_logger) and of the registrations made by the Hindi  *)
(* and Tamil language packs (spacy/lang/hi, spacy/lang/ta).                *)
(*                                                                         *)
(* Python strings that the code slices or compares are sequences of        *)
(* one-character strings.  Floating point values are integers counting     *)
(* 1/10000 (so 0.1267 is 1267); a cell formatted with "{0:.2f}" is the     *)
(* integer number of hundredths it shows (12.67 is 1267).                  *)
(***************************************************************************)
EXTENDS Integers, Sequences, FiniteSets, TLC

\* ------------------------------------------------------------ bounds
\* most log_step calls made on one logger
MaxCalls == 2
\* longest column label given to setup_table in SpecTable
MaxLabelLen == 4
\* most columns given to setup_table in SpecTable
MaxCols == 1
\* largest max_width given to setup_table in SpecTable
MaxWidthArg == 4

\* ------------------------------------------------------------ strings
LowerChars == <<"a","b","c","d","e","f","g","h","i","j","k","l","m",
                "n","o","p","q","r","s","t","u","v","w","x","y","z">>
UpperChars == <<"A","B","C","D","E","F","G","H","I","J","K","L","M",
                "N","O","P","Q","R","S","T","U","V","W","X","Y","Z">>

\* str.upper() on one character
UpperChar(c) ==
  IF \E i \in 1..Len(LowerChars) : LowerChars[i] = c
  THEN UpperChars[CHOOSE i \in 1..Len(LowerChars) : LowerChars[i] = c]
  ELSE c

\* str.upper()
Upper(s) == [i \in 1..Len(s) |-> UpperChar(s[i])]

\* the Python slice s[:n]: n >= 0 keeps the first n characters, n < 0 drops
\* the last -n characters
SliceTo(s, n) ==
  LET stop == IF n >= 0 THEN (IF n < Len(s) THEN n ELSE Len(s))
              ELSE (IF Len(s) + n > 0 THEN Len(s) + n ELSE 0)
  IN  SubSeq(s, 1, stop)

Ellipsis == <<".", ".", ".">>

Max(a, b) == IF a >= b THEN a ELSE b
Min(a, b) == IF a <= b THEN a ELSE b

\* ------------------------------------------------------------ setup_table
\* default of the max_width parameter
DefaultMaxWidth == 13

\* the loop body's shortening of one label (lines 20-21)
ShortenCol(col, max_width) ==
  IF Len(col) > max_width THEN SliceTo(col, max_width - 3) \o Ellipsis ELSE col

\* setup_table(cols=..., widths=..., max_width=...): zip stops at the shorter
\* list; returns (final_cols, final_widths, aligns)
setup_table(cols, widths, max_width) ==
  LET n == Min(Len(cols), Len(widths))
      short == [i \in 1..n |-> ShortenCol(cols[i], max_width)]
  IN  [cols   |-> [i \in 1..n |-> Upper(short[i])],
       widths |-> [i \in 1..n |-> Max(Len(short[i]), widths[i])],
       aligns |-> [i \in 1..n |-> "r"]]

\* ------------------------------------------------------------ state
VARIABLES
  modules,      \* the language packs imported so far
  nlp,          \* the pipeline object given to setup: [pipeline, score_weights, eval_frequency]
  registry,     \* the global registry: name -> registered function
  defaults,     \* language class name -> attributes of its Defaults class
  phase,        \* "new", "factory", "import_error", "ready", "setup_error", "finalized"
  kind,         \* which logger was instantiated: "none", "console", "wandb", "comet"
  progress_bar, \* the progress_bar argument of console_logger
  lib_ok,       \* whether the logger's client library was importable
  session_ok,   \* whether comet_ml.Experiment(...) returned
  stdout,       \* the lines written to the caller's output stream
  indicators,   \* every tqdm indicator created so far, on stderr
  progress,     \* the closure's progress: 0 is None, else an index of indicators
  service,      \* the calls made on the external service's client
  error,        \* the exception the last call raised, or NoError
  calls,        \* number of log_step calls made
  info,         \* argument of the last log_step call
  steps,        \* what the last log_step call did, in order
  t_in,         \* SpecTable: the arguments of setup_table
  t_out         \* SpecTable: what setup_table returned

vars == <<modules, nlp, registry, defaults, phase, kind, progress_bar, lib_ok, session_ok,
          stdout, indicators, progress, service, error, calls, info, steps,
          t_in, t_out>>

logger_vars == <<phase, kind, progress_bar, lib_ok, session_ok, stdout, indicators,
                 progress, service, error, calls, info, steps>>
table_vars == <<t_in, t_out>>
lang_vars == <<modules, registry, defaults>>

\* ------------------------------------------------------------ Python values
Float(n)   == [t |-> "float", num |-> TRUE, v |-> n]
NoneValue  == [t |-> "NoneType", num |-> FALSE, v |-> 0]
\* the string "0.5", which float() parses
StrNumber  == [t |-> "str", num |-> TRUE, v |-> 5000]
\* the string "abc", which float() rejects
StrText    == [t |-> "str", num |-> FALSE, v |-> 0]
ListValue  == [t |-> "list", num |-> FALSE, v |-> 0]

NumericTypes == {"float", "int"}

\* float(x): numbers convert, a string is parsed (ValueError when it is not a
\* number), any other type is a TypeError
PyFloat(x) ==
  IF x.t \in NumericTypes THEN [exc |-> "none", v |-> x.v]
  ELSE IF x.t = "str"
       THEN (IF x.num THEN [exc |-> "none", v |-> x.v]
                      ELSE [exc |-> "ValueError", v |-> 0])
       ELSE [exc |-> "TypeError", v |-> 0]

\* "{0:.2f}".format(x): x in 1/10000, the result in hundredths
Fmt2(x) == (x + 50) \div 100

\* ------------------------------------------------------------ errors
NoError == [exc |-> "none"]
\* Errors.E880.format(library=..., logger=...)
E880(library, logger) ==
  [exc |-> "ImportError", code |-> "E880", library |-> library, logger |-> logger]
\* Errors.E881.format(library="Comet", url=...)
E881 ==
  [exc |-> "ValueError", code |-> "E881", library |-> "Comet",
   url |-> "https://comet.ml/docs/python-sdk/spacy/"]
\* ValueError(Errors.E916.format(name=col, score_type=type(score)))
E916(col, score) ==
  [exc |-> "ValueError", code |-> "E916", name |-> col, score_type |-> score.t]
\* the ValueError float() itself raises for a string that is no number
FloatValueError == [exc |-> "ValueError", code |-> "float"]

\* ------------------------------------------------------------ names
AccName         == <<"a","c","c">>
SpeedName       == <<"s","p","e","e","d">>
TaggerName      == <<"t","a","g","g","e","r">>
LinkerName      == <<"e","n","t","i","t","y","_","l","i","n","k","e","r">>
SentencizerName == <<"s","e","n","t","e","n","c","i","z","e","r">>
ScoreKey        == <<"s","c","o","r","e">>

\* ------------------------------------------------------------ the pipeline object
\* a component without the is_trainable attribute, and trainable ones
Sentencizer == [name |-> SentencizerName, has_attr |-> FALSE, is_trainable |-> FALSE]
Tagger      == [name |-> TaggerName, has_attr |-> TRUE, is_trainable |-> TRUE]
Linker      == [name |-> LinkerName, has_attr |-> TRUE, is_trainable |-> TRUE]

Pipelines == { <<Sentencizer>>, <<Sentencizer, Tagger, Linker>> }

\* nlp.config["training"]["score_weights"], in dictionary order
ScoreWeights ==
  { << [name |-> AccName, weight |-> Float(10000)],
       [name |-> SpeedName, weight |-> Float(0)] >>,
    << [name |-> AccName, weight |-> NoneValue],
       [name |-> SpeedName, weight |-> Float(10000)] >>,
    << [name |-> AccName, weight |-> Float(10000)] >> }

Nlps == [pipeline : Pipelines, score_weights : ScoreWeights, eval_frequency : {200}]

\* lines 35-39
logged_pipes(n) ==
  LET keep(proc) == proc.has_attr /\ proc.is_trainable
      kept == SelectSeq(n.pipeline, keep)
  IN  [i \in 1..Len(kept) |-> kept[i].name]

\* line 42
score_cols(n) ==
  LET keep(item) == item.weight.t # "NoneType"
      kept == SelectSeq(n.score_weights, keep)
  IN  [i \in 1..Len(kept) |-> kept[i].name]

\* line 43
loss_cols(n) ==
  LET lp == logged_pipes(n)
      label(pipe) == <<"L","o","s","s"," ">> \o pipe
  IN  [i \in 1..Len(lp) |-> label(lp[i])]

\* lines 45-48
table(n) ==
  LET lc == loss_cols(n)
      sc == score_cols(n)
  IN  setup_table(
        << <<"E">>, <<"#">> >> \o lc \o sc \o << <<"S","c","o","r","e">> >>,
        <<3, 6>> \o [i \in 1..Len(lc) |-> 8] \o [i \in 1..Len(sc) |-> 6] \o <<6>>,
        DefaultMaxWidth)

\* the spacing local of setup_printer
spacing == 2

\* what write(msg.row(cells, widths=..., aligns=..., spacing=spacing)) puts on
\* the stream: one line; <<>> stands for an argument left at its default
Line(cells, widths, aligns) ==
  [cells |-> cells, widths |-> widths, aligns |-> aligns, spacing |-> spacing]

Dashes(w) == [i \in 1..w |-> "-"]

\* lines 49-50
HeaderLine(n) == LET t == table(n) IN Line(t.cols, t.widths, <<>>)
SeparatorLine(n) ==
  LET w == table(n).widths
  IN  Line([i \in 1..Len(w) |-> Dashes(w[i])], <<>>, <<>>)

\* ------------------------------------------------------------ log_step arguments
NoInfo == [is_none |-> TRUE]

Metrics == {AccName, SpeedName}
\* the values a record gives "acc": a number, None, a list, "abc", "0.5"
AccValues == {Float(1267), NoneValue, ListValue, StrText, StrNumber}
\* the values a record gives "speed": a number, None
SpeedValues == {Float(200051), NoneValue}

\* a dictionary with no key
EmptyDict == [k \in {} |-> NoneValue]

\* info["other_scores"]: any subset of the metrics, each with one of its values
OtherScores ==
  { a @@ b : a \in {EmptyDict} \cup { AccName :> v : v \in AccValues },
             b \in {EmptyDict} \cup { SpeedName :> v : v \in SpeedValues } }

Range(s) == { s[i] : i \in DOMAIN s }

\* info["losses"] as the training loop fills it: one loss per trainable pipe
LossesOf(n) == [p \in Range(logged_pipes(n)) |-> Float(1000 * Len(p) + 55)]

\* the record of training step `step`
Infos(n, step) ==
  [is_none : {FALSE}, epoch : {0}, step : {step}, losses : {LossesOf(n)},
   other_scores : OtherScores, score : {Float(8000)}]

IsNumeric(x) == x.t \in NumericTypes

\* a record whose values are all numbers
AllNumeric(i) ==
  /\ ~i.is_none
  /\ IsNumeric(i.score)
  /\ \A p \in DOMAIN i.losses : IsNumeric(i.losses[p])
  /\ \A m \in DOMAIN i.other_scores : IsNumeric(i.other_scores[m])

\* ------------------------------------------------------------ console log_step
\* lines 61-64: raises on the first pipe that has no loss or whose loss is
\* no number
RECURSIVE RenderLosses(_, _, _)
RenderLosses(pipes, losses, k) ==
  IF k > Len(pipes) THEN [err |-> NoError, cells |-> <<>>]
  ELSE IF pipes[k] \notin DOMAIN losses
       THEN [err |-> [exc |-> "KeyError"], cells |-> <<>>]
  ELSE LET f == PyFloat(losses[pipes[k]])
           rest == RenderLosses(pipes, losses, k + 1)
       IN  IF f.exc # "none" THEN [err |-> [exc |-> f.exc], cells |-> <<>>]
           ELSE IF rest.err.exc # "none" THEN rest
           ELSE [err |-> NoError, cells |-> <<Fmt2(f.v)>> \o rest.cells]

\* a scaling that makes no exception for "speed"
ScaleScoreAll(col, v) == v * 100
\* lines 74-75
ScaleScore(col, v) == IF col # SpeedName THEN v * 100 ELSE v

\* lines 69-73: only the TypeError of float() is turned into E916
ScoreError(col, score) ==
  LET f == PyFloat(score)
  IN  IF f.exc = "TypeError" THEN E916(col, score)
      ELSE IF f.exc = "ValueError" THEN FloatValueError
      ELSE NoError

\* lines 66-76: the loop over score_cols, from column k on
RECURSIVE RenderScores(_, _, _)
RenderScores(cols, other_scores, k) ==
  IF k > Len(cols) THEN [err |-> NoError, cells |-> <<>>]
  ELSE LET col == cols[k]
           score == IF col \in DOMAIN other_scores THEN other_scores[col] ELSE Float(0)
           e == ScoreError(col, score)
           rest == RenderScores(cols, other_scores, k + 1)
       IN  IF e.exc # "none" THEN [err |-> e, cells |-> <<>>]
           ELSE IF rest.err.exc # "none" THEN rest
           ELSE [err |-> NoError,
                 cells |-> <<Fmt2(ScaleScore(col, PyFloat(score).v))>> \o rest.cells]

\* lines 78-83 (with 61-76): the row's cells, or the exception raised on the way
RowData(n, i) ==
  LET l == RenderLosses(logged_pipes(n), i.losses, 1)
      s == RenderScores(score_cols(n), i.other_scores, 1)
      t == PyFloat(i.score)
  IN  IF l.err.exc # "none" THEN l
      ELSE IF s.err.exc # "none" THEN s
      ELSE IF t.exc # "none" THEN [err |-> [exc |-> t.exc], cells |-> <<>>]
      ELSE [err |-> NoError,
            cells |-> <<i.epoch, i.step>> \o l.cells \o s.cells \o <<Fmt2(t.v)>>]

\* lines 86-88
DataLine(n, cells) == LET t == table(n) IN Line(cells, t.widths, t.aligns)

\* a log_step that leaves the open indicator open
KeepProgress == indicators
\* lines 84-85: progress.close()
CloseProgress ==
  IF progress # 0 THEN [indicators EXCEPT ![progress].open = FALSE] ELSE indicators

\* lines 89-94: tqdm.tqdm(total=eval_frequency, ...) and set_description
NewIndicator(n, i) ==
  [open |-> TRUE, n |-> 0, total |-> n.eval_frequency, epoch |-> i.epoch + 1]

\* a log_step(None) that writes the last line again
ConsoleNoneEcho ==
  [err |-> NoError,
   stdout |-> IF stdout = <<>> THEN stdout ELSE Append(stdout, stdout[Len(stdout)]),
   indicators |-> indicators, progress |-> progress, steps |-> <<"write">>]
\* lines 56-60: log_step(None)
ConsoleNone ==
  [err |-> NoError,
   stdout |-> stdout,
   indicators |-> IF progress # 0
                  THEN [indicators EXCEPT ![progress].n = @ + 1]
                  ELSE indicators,
   progress |-> progress,
   steps |-> IF progress # 0 THEN <<"update">> ELSE <<>>]

\* lines 61-94: log_step(info) with a record
ConsoleRecord(i) ==
  LET d == RowData(nlp, i)
  IN  IF d.err.exc # "none"
      THEN [err |-> d.err, stdout |-> stdout, indicators |-> indicators,
            progress |-> progress, steps |-> <<>>]
      ELSE [err |-> NoError,
            stdout |-> Append(stdout, DataLine(nlp, d.cells)),
            indicators |-> IF progress_bar
                           THEN Append(CloseProgress, NewIndicator(nlp, i))
                           ELSE CloseProgress,
            progress |-> IF progress_bar THEN Len(indicators) + 1 ELSE progress,
            steps |-> (IF CloseProgress # indicators THEN <<"close">> ELSE <<>>)
                      \o <<"write">>
                      \o (IF progress_bar THEN <<"open">> ELSE <<>>)]

\* lines 53-94
console_log_step(i) == IF i.is_none THEN ConsoleNone ELSE ConsoleRecord(i)

\* ------------------------------------------------------------ forwarding log_step
LossKey(k) == <<"l","o","s","s","_">> \o k

\* {f"loss_{k}": v for k, v in losses.items()}
LossPayload(losses) ==
  [key \in { LossKey(k) : k \in DOMAIN losses } |->
     losses[CHOOSE k \in DOMAIN losses : LossKey(k) = key]]

\* util.flatten_dictionary("", d, results) on a dictionary of scalars
flatten_dictionary(d) == d

\* lines 126-133: the wandb.log calls for one record
WandbRelay(i) ==
  <<[op |-> "wandb.log", data |-> (ScoreKey :> i.score)]>>
  \o (IF DOMAIN i.losses # {}
      THEN <<[op |-> "wandb.log", data |-> LossPayload(i.losses)]>> ELSE <<>>)
  \o <<[op |-> "wandb.log", data |-> i.other_scores]>>

\* lines 177-186: the experiment.log_metric(s) calls for one record
CometRelay(i) ==
  << [op |-> "log_metric", data |-> (ScoreKey :> i.score),
      step |-> i.step, epoch |-> i.epoch],
     [op |-> "log_metrics", data |-> flatten_dictionary(i.other_scores),
      step |-> i.step, epoch |-> i.epoch],
     [op |-> "log_metrics", data |-> LossPayload(i.losses),
      step |-> i.step, epoch |-> i.epoch] >>

Relay(i) == IF kind = "wandb" THEN WandbRelay(i) ELSE CometRelay(i)

\* the state a log_step call leaves: the console's, and the service's calls
Outcome(c, svc) ==
  [err |-> c.err, stdout |-> c.stdout, indicators |-> c.indicators,
   progress |-> c.progress, service |-> svc,
   steps |-> c.steps \o (IF svc # service THEN <<"relay">> ELSE <<>>)]

\* a forwarding log_step that relays before it calls the console's
relay_first_log_step(i) ==
  LET c == console_log_step(i)
  IN  Outcome(c, IF i.is_none THEN service ELSE service \o Relay(i))

\* lines 123-133 and 172-186: console_log_step(info) first; an exception it
\* raises leaves the rest of the body unrun
forwarding_log_step(i) ==
  LET c == console_log_step(i)
  IN  IF c.err.exc # "none" THEN Outcome(c, service)
      ELSE IF i.is_none THEN Outcome(c, service)
      ELSE Outcome(c, service \o Relay(i))

\* the log_step callback the instantiated logger returned
log_step(i) ==
  IF kind = "console" THEN Outcome(console_log_step(i), service)
  ELSE forwarding_log_step(i)

\* ------------------------------------------------------------ language packs
EmptyMap == [k \in {} |-> ""]

\* what calling a registered function returns
CallProvider(fn) ==
  IF fn = "hi.stop_words" THEN "hi.STOP_WORDS"
  ELSE IF fn = "hi.lex_attr_getters" THEN "hi.LEX_ATTRS"
  ELSE "undefined"

\* registrations with the two functions exchanged
HindiSwapped ==
  ("spacy.hi.stop_words" :> "hi.lex_attr_getters")
  @@ ("spacy.hi.lex_attr_getters" :> "hi.stop_words")
\* the two @registry.language_data(...) decorators of spacy/lang/hi
HindiRegistrations ==
  ("spacy.hi.stop_words" :> "hi.stop_words")
  @@ ("spacy.hi.lex_attr_getters" :> "hi.lex_attr_getters")

\* import spacy.lang.hi
LoadHindi ==
  /\ "hi" \notin modules
  /\ modules' = modules \cup {"hi"}
  /\ registry' = HindiRegistrations @@ registry
  /\ UNCHANGED <<defaults, nlp, logger_vars, table_vars>>

\* import spacy.lang.ta: the class body of TamilDefaults; no registry call
LoadTamil ==
  /\ "ta" \notin modules
  /\ modules' = modules \cup {"ta"}
  /\ defaults' = ("TamilDefaults" :>
                    [lex_attr_getters |-> "ta.LEX_ATTRS", stop_words |-> "ta.STOP_WORDS"])
                 @@ defaults
  /\ UNCHANGED <<registry, nlp, logger_vars, table_vars>>

\* ------------------------------------------------------------ logger factories
\* console_logger(progress_bar=pb)
ConsoleLogger(pb) ==
  /\ phase = "new"
  /\ kind' = "console"
  /\ progress_bar' = pb
  /\ phase' = "factory"
  /\ UNCHANGED <<lib_ok, session_ok, stdout, indicators, progress, service, error,
                 calls, info, steps, nlp, lang_vars, table_vars>>

\* a factory that goes on when the import failed
ForwardingLoggerNoCheck(name, library, logger, importable) ==
  /\ phase = "new"
  /\ kind' = name
  /\ lib_ok' = importable
  /\ phase' = "factory" /\ progress_bar' = FALSE /\ error' = NoError
  /\ UNCHANGED <<session_ok, stdout, indicators, progress, service,
                 calls, info, steps, nlp, lang_vars, table_vars>>

\* lines 105-112 and 145-151: the import, then console_logger(progress_bar=False)
ForwardingLogger(name, library, logger, importable) ==
  /\ phase = "new"
  /\ kind' = name
  /\ lib_ok' = importable
  /\ IF importable
     THEN phase' = "factory" /\ progress_bar' = FALSE /\ error' = NoError
     ELSE phase' = "import_error" /\ error' = E880(library, logger)
          /\ UNCHANGED progress_bar
  /\ UNCHANGED <<session_ok, stdout, indicators, progress, service,
                 calls, info, steps, nlp, lang_vars, table_vars>>

WandbLogger(importable) == ForwardingLogger("wandb", "wandb", "WandbLogger", importable)
CometLogger(importable) == ForwardingLogger("comet", "comet_ml", "CometLogger", importable)

\* ------------------------------------------------------------ setup
\* a setup that writes the separator before the header
SeparatorFirst(out) == out \o <<SeparatorLine(nlp), HeaderLine(nlp)>>
\* lines 49-50: the header row, then the separator row
ConsoleSetup(out) == out \o <<HeaderLine(nlp), SeparatorLine(nlp)>>

\* setup_printer(nlp, stdout, stderr)
SetupConsole ==
  /\ phase = "factory" /\ kind = "console"
  /\ stdout' = ConsoleSetup(stdout)
  /\ progress' = 0
  /\ phase' = "ready"
  /\ error' = NoError
  /\ UNCHANGED <<kind, progress_bar, lib_ok, session_ok, indicators, service,
                 calls, info, steps, nlp, lang_vars, table_vars>>

\* wandb's setup_logger: wandb.init(...), then the console's setup
SetupWandb ==
  /\ phase = "factory" /\ kind = "wandb"
  /\ service' = Append(service, [op |-> "wandb.init"])
  /\ stdout' = ConsoleSetup(stdout)
  /\ progress' = 0
  /\ phase' = "ready"
  /\ error' = NoError
  /\ UNCHANGED <<kind, progress_bar, lib_ok, session_ok, indicators,
                 calls, info, steps, nlp, lang_vars, table_vars>>

\* a setup_logger that goes on with experiment = None
SetupCometSwallow(created) ==
  /\ phase = "factory" /\ kind = "comet"
  /\ session_ok' = created
  /\ service' = IF created
                THEN service \o <<[op |-> "comet_ml.Experiment"], [op |-> "log_asset_data"]>>
                ELSE service
  /\ stdout' = ConsoleSetup(stdout)
  /\ progress' = 0
  /\ phase' = "ready"
  /\ error' = NoError
  /\ UNCHANGED <<kind, progress_bar, lib_ok, indicators,
                 calls, info, steps, nlp, lang_vars, table_vars>>

\* comet's setup_logger (lines 157-170): `created` is whether
\* comet_ml.Experiment(...) returned rather than threw
SetupComet(created) ==
  /\ phase = "factory" /\ kind = "comet"
  /\ session_ok' = created
  /\ IF created
     THEN /\ service' = service \o <<[op |-> "comet_ml.Experiment"],
                                     [op |-> "log_asset_data"]>>
          /\ stdout' = ConsoleSetup(stdout)
          /\ progress' = 0
          /\ phase' = "ready"
          /\ error' = NoError
     ELSE /\ error' = E881
          /\ phase' = "setup_error"
          /\ UNCHANGED <<service, stdout, progress>>
  /\ UNCHANGED <<kind, progress_bar, lib_ok, indicators,
                 calls, info, steps, nlp, lang_vars, table_vars>>

\* ------------------------------------------------------------ the callbacks
\* one call log_step(i) of the returned callback
LogStep(i) ==
  /\ phase = "ready"
  /\ calls < MaxCalls
  /\ \E o \in {log_step(i)} :
         /\ stdout' = o.stdout
         /\ indicators' = o.indicators
         /\ progress' = o.progress
         /\ service' = o.service
         /\ error' = o.err
         /\ steps' = o.steps
  /\ calls' = calls + 1
  /\ info' = i
  /\ UNCHANGED <<phase, kind, progress_bar, lib_ok, session_ok, nlp, lang_vars, table_vars>>

\* finalize(): lines 96-97, 135-137, 188-191
Finalize ==
  /\ phase = "ready"
  /\ phase' = "finalized"
  /\ service' = IF kind = "wandb" THEN Append(service, [op |-> "wandb.join"])
                ELSE IF kind = "comet" THEN Append(service, [op |-> "experiment.end"])
                ELSE service
  /\ UNCHANGED <<kind, progress_bar, lib_ok, session_ok, stdout, indicators, progress,
                 error, calls, info, steps, nlp, lang_vars, table_vars>>

\* ------------------------------------------------------------ specification
NoTableCall == [cols |-> <<>>, widths |-> <<>>, max_width |-> DefaultMaxWidth]
NoTableResult == [done |-> FALSE, cols |-> <<>>, widths |-> <<>>, aligns |-> <<>>]

InitLogger ==
  /\ phase = "new" /\ kind = "none" /\ progress_bar = FALSE
  /\ lib_ok = TRUE /\ session_ok = TRUE
  /\ stdout = <<>> /\ indicators = <<>> /\ progress = 0 /\ service = <<>>
  /\ error = NoError /\ calls = 0 /\ info = NoInfo /\ steps = <<>>

InitLang == modules = {} /\ registry = EmptyMap /\ defaults = EmptyMap

Init ==
  /\ nlp \in Nlps
  /\ InitLogger
  /\ InitLang
  /\ t_in = NoTableCall /\ t_out = NoTableResult

Next ==
  \/ LoadHindi
  \/ LoadTamil
  \/ \E pb \in BOOLEAN : ConsoleLogger(pb)
  \/ \E importable \in BOOLEAN : WandbLogger(importable)
  \/ \E importable \in BOOLEAN : CometLogger(importable)
  \/ SetupConsole
  \/ SetupWandb
  \/ \E created \in BOOLEAN : SetupComet(created)
  \/ \E i \in {NoInfo} \cup Infos(nlp, calls + 1) : LogStep(i)
  \/ Finalize

Spec == Init /\ [][Next]_vars

\* ------------------------------------------------------------ setup_table alone
Alphabet == {"a", "Z"}
Labels == UNION { [1..k -> Alphabet] : k \in 0..MaxLabelLen }
WidthChoices == {3, 8}

TableInputs ==
  [cols : UNION { [1..k -> Labels] : k \in 0..MaxCols },
   widths : UNION { [1..k -> WidthChoices] : k \in 0..MaxCols },
   max_width : 0..MaxWidthArg]

\* one call setup_table(cols=..., widths=..., max_width=...)
CallSetupTable ==
  /\ ~t_out.done
  /\ LET r == setup_table(t_in.cols, t_in.widths, t_in.max_width)
     IN  t_out' = [done |-> TRUE, cols |-> r.cols, widths |-> r.widths,
                   aligns |-> r.aligns]
  /\ UNCHANGED <<t_in, nlp, logger_vars, lang_vars>>

InitTable ==
  /\ t_in \in TableInputs
  /\ t_out = NoTableResult
  /\ nlp \in {n \in Nlps : n.pipeline = <<Sentencizer>> /\ Len(n.score_weights) = 1}
  /\ InitLogger
  /\ InitLang

NextTable == CallSetupTable

SpecTable == InitTable /\ [][NextTable]_vars

\* ------------------------------------------------------------ claims
\* a step of the model that is one log_step call
IsCall == calls' = calls + 1

\* C1: a log_step call of the console logger whose info is None writes nothing:
\* the stream holds after the call exactly what it held before, whatever
\* calls came earlier and whether or not a progress indicator is open.
C1_NoneWritesNothing ==
  [][(IsCall /\ info'.is_none) => stdout' = stdout]_vars

\* a None call was made while an indicator was open and rows were on the stream
C1_Witness ==
  /\ calls > 0 /\ info.is_none
  /\ progress # 0 /\ indicators[progress].open /\ indicators[progress].n > 0
  /\ Len(stdout) > 2

\* the value the record gives a metric: other_scores.get(col, 0.0)
GivenScore(i, col) ==
  IF col \in DOMAIN i.other_scores THEN i.other_scores[col].v ELSE 0

\* C2: a log_step call with a record whose values are all numeric writes exactly
\* one row, and in it every configured score column holds 100 times the
\* record's value for that metric (0 when the record lacks it), except the
\* column named "speed", which holds the value unscaled (to two decimals).
C2_ScoreColumns ==
  [][(IsCall /\ AllNumeric(info')) =>
       /\ Len(stdout') = Len(stdout) + 1
       /\ SubSeq(stdout', 1, Len(stdout)) = stdout
       /\ LET row == stdout'[Len(stdout')].cells
              cols == score_cols(nlp)
              first == 2 + Len(logged_pipes(nlp))
          IN  /\ Len(row) = first + Len(cols) + 1
              /\ \A k \in 1..Len(cols) :
                   LET v == GivenScore(info', cols[k])
                       cell == row[first + k]
                   IN  IF cols[k] = SpeedName
                       THEN 100 * cell - 50 <= v /\ v < 100 * cell + 50
                       ELSE 100 * cell = 100 * v
     ]_vars

\* a row was written for a numeric record that gives both "acc" and "speed",
\* with both columns configured
C2_Witness ==
  /\ calls > 0 /\ AllNumeric(info) /\ error.exc = "none"
  /\ Len(score_cols(nlp)) = 2
  /\ DOMAIN info.other_scores = Metrics
  /\ Len(stdout) > 2

\* the configured score columns for which record i holds a non-numeric value
BadCols(i) ==
  { c \in Range(score_cols(nlp)) :
      c \in DOMAIN i.other_scores /\ ~IsNumeric(i.other_scores[c]) }

\* C3: a log_step call with a record in which a configured score column's value
\* is non-numeric (None, a string, ...) raises a value error that names the
\* metric and the offending type, and writes no row.
C3_NonNumericRaises ==
  [][(IsCall /\ ~info'.is_none /\ BadCols(info') # {}) =>
       /\ stdout' = stdout
       /\ error'.exc = "ValueError"
       /\ error'.code = "E916"
       /\ error'.name \in BadCols(info')
       /\ error'.score_type = info'.other_scores[error'.name].t
     ]_vars

\* the first n characters of s (none when n <= 0)
FirstChars(s, n) == SubSeq(s, 1, Min(Max(n, 0), Len(s)))

\* C4: setup_table, for every label and every max_width: a label longer than
\* max_width becomes its first max_width-3 characters followed by an ellipsis,
\* a label of length at most max_width keeps all its characters, and every
\* returned header label is upper-cased.
C4_Truncation ==
  t_out.done =>
    \A k \in 1..Len(t_out.cols) :
      LET col == t_in.cols[k]
          mw == t_in.max_width
      IN  t_out.cols[k] =
            Upper(IF Len(col) > mw THEN FirstChars(col, mw - 3) \o Ellipsis ELSE col)

\* C5: when the client library of a forwarding logger is not importable,
\* instantiating the logger raises an import error, and nothing has been
\* written to the stream and no setup or log_step callback exists.
C5_ImportErrorFirst ==
  (kind \in {"wandb", "comet"} /\ ~lib_ok) =>
    /\ phase = "import_error"
    /\ error.exc = "ImportError"
    /\ error.library = (IF kind = "wandb" THEN "wandb" ELSE "comet_ml")
    /\ stdout = <<>>
    /\ service = <<>>
    /\ calls = 0

\* the Comet logger was instantiated without comet_ml
C5_Witness == kind = "comet" /\ ~lib_ok /\ phase = "import_error"

\* C6 as stated: after setup and any sequence of log_step calls the stream
\* holds the header, the separator and one data row per logging call.
C6_OneRowPerCall ==
  phase \in {"ready", "finalized"} =>
    /\ Len(stdout) = 2 + calls
    /\ stdout[1] = HeaderLine(nlp)
    /\ stdout[2] = SeparatorLine(nlp)

\* C6 amended: after setup and any sequence of log_step calls the stream holds
\* the header row, then the separator row, then one data row per log_step call
\* that was given a record and returned without raising, in call order, and
\* nothing else.  Step by step: setup writes header and separator on the empty
\* stream, such a call appends one row carrying its step number, and no other
\* step changes the stream.
C6_OneRowPerRenderedRecord ==
  [][/\ (phase = "factory" /\ phase' = "ready") =>
          /\ stdout = <<>>
          /\ stdout' = <<HeaderLine(nlp), SeparatorLine(nlp)>>
     /\ (IsCall /\ ~info'.is_none /\ error'.exc = "none") =>
          LET row == stdout'[Len(stdout')]
          IN  /\ Len(stdout) >= 2
              /\ Len(stdout') = Len(stdout) + 1
              /\ SubSeq(stdout', 1, Len(stdout)) = stdout
              /\ row.cells[2] = info'.step
              /\ row.aligns = [k \in 1..Len(row.cells) |-> "r"]
              /\ Len(row.cells) = Len(stdout[1].cells)
              /\ Len(stdout) > 2 => stdout[Len(stdout)].cells[2] < row.cells[2]
     /\ (IsCall /\ (info'.is_none \/ error'.exc # "none")) => stdout' = stdout
     /\ (~IsCall /\ ~(phase = "factory" /\ phase' = "ready")) => stdout' = stdout
    ]_vars

\* two calls were made and one of them wrote a row
C6_Witness ==
  /\ phase \in {"ready", "finalized"}
  /\ calls = 2
  /\ Len(stdout) = 3

\* C7: if creating the Comet experiment throws during setup, setup raises a
\* value error carrying the documentation URL; no log_step/finalize pair is
\* returned, nothing has been written to the stream and no call has been made
\* on the external service.
C7_SessionFailure ==
  (kind = "comet" /\ ~session_ok) =>
    /\ phase = "setup_error"
    /\ error.exc = "ValueError"
    /\ error.code = "E881"
    /\ error.url = "https://comet.ml/docs/python-sdk/spacy/"
    /\ stdout = <<>>
    /\ service = <<>>
    /\ calls = 0

\* the Comet logger's setup ran and the experiment could not be created
C7_Witness == kind = "comet" /\ lib_ok /\ ~session_ok /\ phase = "setup_error"

\* the calls on the service that relay a record's overall score
ScoreRelays == SelectSeq(service, LAMBDA e : e.op \in {"wandb.log", "log_metric"}
                                             /\ DOMAIN e.data = {ScoreKey})

\* position of the first occurrence of x in s, 0 when there is none
IndexOf(s, x) ==
  IF \E k \in 1..Len(s) : s[k] = x
  THEN CHOOSE k \in 1..Len(s) : s[k] = x /\ \A j \in 1..(k - 1) : s[j] # x
  ELSE 0

\* C8: for each forwarding logger and every log_step call: with a record, the
\* console row is rendered first and then the record's overall score, losses
\* and other scores are relayed to the service; with None nothing is relayed;
\* if rendering the row raises, nothing of the record is relayed.  So the
\* records relayed are exactly those a row was written for, in the same order.
C8_RelayFollowsRow ==
  [][(kind \in {"wandb", "comet"}) =>
       /\ (IsCall /\ info'.is_none) => service' = service
       /\ (IsCall /\ error'.exc # "none") => (service' = service /\ stdout' = stdout)
       /\ (IsCall /\ ~info'.is_none /\ error'.exc = "none") =>
            LET new == SubSeq(service', Len(service) + 1, Len(service'))
                sent == { new[k].data : k \in 1..Len(new) }
            IN  /\ Len(stdout') = Len(stdout) + 1
                /\ SubSeq(service', 1, Len(service)) = service
                /\ (ScoreKey :> info'.score) \in sent
                /\ info'.other_scores \in sent
                /\ DOMAIN info'.losses # {} => LossPayload(info'.losses) \in sent
                /\ sent \subseteq {ScoreKey :> info'.score, info'.other_scores,
                                   LossPayload(info'.losses)}
                /\ IndexOf(steps', "write") > 0
                /\ IndexOf(steps', "write") < IndexOf(steps', "relay")
       /\ (phase' = "ready") =>
            /\ Len(SelectSeq(service', LAMBDA e : e.op \in {"wandb.log", "log_metric"}
                                                  /\ DOMAIN e.data = {ScoreKey}))
               = Len(stdout') - 2
            /\ kind = "comet" =>
                 \A k \in 1..(Len(stdout') - 2) :
                   SelectSeq(service', LAMBDA e : e.op = "log_metric")[k].step
                     = stdout'[k + 2].cells[2]
     ]_vars

\* a forwarding logger relayed one record and then a call raised
C8_Witness ==
  /\ kind = "comet" /\ phase = "ready"
  /\ calls = 2 /\ error.exc # "none"
  /\ Len(stdout) = 3
  /\ Len(ScoreRelays) = 1

\* the two registry names of a language pack
PackKeys(lang) ==
  IF lang = "hi"
  THEN [stop_words |-> "spacy.hi.stop_words", lex_attr_getters |-> "spacy.hi.lex_attr_getters"]
  ELSE [stop_words |-> "spacy.ta.stop_words", lex_attr_getters |-> "spacy.ta.lex_attr_getters"]

OpenIndicators(ind) == { k \in 1..Len(ind) : ind[k].open }

====
